---- MODULE Spec2Model ----
(***************************************************************************)
(* Model of the `roads` terminal UI (src/src/main.rs, src/src/util.rs):    *)
(* the shared State behind Arc<Mutex<State>>, the foreground main_loop     *)
(* (draw, wait for an event, dispatch it) and the background task spawned  *)
(* by State::fetch.                                                         *)
(*                                                                         *)
(* Strings are sequences of one-character strings.  Option<T> is the empty *)
(* sequence (None) or a one-element sequence (Some).  List indices are     *)
(* 0-based as in the source.                                               *)
(***************************************************************************)
EXTENDS Integers, Sequences, FiniteSets, TLC

VARIABLES
    state,   \* the State value held in the Arc<Mutex<State>>
    lock,    \* owner of the Mutex: "free", "main" or "task"
    tasks,   \* the background tasks spawned by State::fetch, not yet finished
    pc,      \* position of main: in main_loop "draw" or "wait"; after it
             \* "exited", "failed" or "panicked"; "done" once the process is gone
    last,    \* history: the key the latest step dispatched and the focus it met
    raw_mode,   \* the terminal is in raw mode
    exit_code,  \* None while the process runs, then Some(its exit code)
    list,    \* WrappingList under test
    calls,   \* the calls made on list since new, each with the index it left
    chosen,  \* NominatimEntry handed to fetch_roads
    request, \* None, or Some(the Overpass query fetch_roads built for chosen)
    polylines,  \* the paths handed to dump_svg
    file     \* what dump_svg left at its path and what it returned

\* the variables of main and of the tasks it spawns
main_vars == <<state, lock, tasks, pc, last, raw_mode, exit_code>>
\* the variables of the functions checked on their own
pure_vars == <<list, calls, chosen, request, polylines, file>>

vars == <<main_vars, pure_vars>>

----------------------------------------------------------------------------
(* Bounds of the model *)

\* longest query the user types into the Search line
MaxCity == 1
\* longest buffer the user extends by typing in ParamEdit
MaxBuf == 1
\* longest list of places a search returns
MaxPlaces == 1
\* most advances of the spinner during one fetch: a fetch ends before
\* (MaxTicks + 1) * 80 ms have passed
MaxTicks == 1

\* printable characters the modelled keyboard produces
Chars == {"0"}
\* the options the modelled user opens in the parameter editor
Edited == {"Width", "Line width", "Open on save"}

----------------------------------------------------------------------------
(* Option *)

None == <<>>
Some(x) == <<x>>
unwrap(o) == o[1]

----------------------------------------------------------------------------
(* Strings and the FromStr / Display implementations behind ParamValue *)

Digits == {"0", "1", "2", "3", "4", "5", "6", "7", "8", "9"}
DigitChars == <<"0", "1", "2", "3", "4", "5", "6", "7", "8", "9">>
DigitVal(c) == (CHOOSE i \in 1..10 : DigitChars[i] = c) - 1

\* s without its last character; String::pop is a no-op on ""
pop(s) == IF s = <<>> THEN s ELSE SubSeq(s, 1, Len(s) - 1)
push(s, c) == Append(s, c)

RECURSIVE NatOfDigits(_)
NatOfDigits(s) ==
    IF s = <<>> THEN 0
    ELSE 10 * NatOfDigits(pop(s)) + DigitVal(s[Len(s)])

RECURSIVE DigitsOfNat(_)
DigitsOfNat(n) ==
    IF n < 10 THEN <<DigitChars[n + 1]>>
    ELSE DigitsOfNat(n \div 10) \o <<DigitChars[(n % 10) + 1]>>

RECURSIVE StripTrailingZeros(_)
StripTrailingZeros(s) ==
    IF s # <<>> /\ s[Len(s)] = "0" THEN StripTrailingZeros(pop(s)) ELSE s

\* position of the first "." in s, or 0
DotPos(s) ==
    IF \E i \in 1..Len(s) : s[i] = "."
    THEN CHOOSE i \in 1..Len(s) : s[i] = "." /\ \A j \in 1..(i - 1) : s[j] # "."
    ELSE 0

\* An f64 is <<negative, integer part, fractional digits without trailing
\* zeros>>: the decimal it denotes.  Exact for the short decimals the model
\* reaches; the keyboard of the model types no exponent, "inf" or "nan".
F64(neg, int, frac) == [type |-> "f64", v |-> <<neg, int, frac>>]
StringV(s) == [type |-> "String", v |-> s]
BoolV(b) == [type |-> "bool", v |-> b]

\* <f64 as FromStr>::from_str: [sign] digits ["." digits], at least one digit
parse_f64(s) ==
    LET signed == s # <<>> /\ s[1] \in {"-", "+"}
        body == IF signed THEN Tail(s) ELSE s
        dot == DotPos(body)
        ip == IF dot = 0 THEN body ELSE SubSeq(body, 1, dot - 1)
        fp == IF dot = 0 THEN <<>> ELSE SubSeq(body, dot + 1, Len(body))
        wellFormed == /\ \A i \in 1..Len(ip) : ip[i] \in Digits
                      /\ \A i \in 1..Len(fp) : fp[i] \in Digits
                      /\ Len(ip) + Len(fp) > 0
    IN IF wellFormed
       THEN Some(F64(signed /\ s[1] = "-", NatOfDigits(ip), StripTrailingZeros(fp)))
       ELSE None

\* <bool as FromStr>::from_str
parse_bool(s) ==
    IF s = <<"t", "r", "u", "e">> THEN Some(BoolV(TRUE))
    ELSE IF s = <<"f", "a", "l", "s", "e">> THEN Some(BoolV(FALSE))
    ELSE None

\* <String as FromStr>::from_str never fails
parse_String(s) == Some(StringV(s))

\* str::parse::<T>() for the concrete type T behind the ParamValue
parse(type, s) ==
    IF type = "f64" THEN parse_f64(s)
    ELSE IF type = "bool" THEN parse_bool(s)
    ELSE parse_String(s)

\* Display (to_string) of a ParamValue
to_string(value) ==
    IF value.type = "f64"
    THEN (IF value.v[1] THEN <<"-">> ELSE <<>>)
         \o DigitsOfNat(value.v[2])
         \o (IF value.v[3] = <<>> THEN <<>> ELSE <<".">> \o value.v[3])
    ELSE IF value.type = "bool"
    THEN (IF value.v THEN <<"t", "r", "u", "e">> ELSE <<"f", "a", "l", "s", "e">>)
    ELSE value.v

\* a from_str that reports the parse and never stores its result
from_str_keeps_value(value, s) ==
    [value |-> value, ok |-> parse(value.type, s) # None]

\* ParamValue::from_str(&mut self, s): the value after the call and the
\* returned flag; on a parse error the value is left as it was
from_str(value, s) ==
    LET r == parse(value.type, s)
    IN IF r # None THEN [value |-> unwrap(r), ok |-> TRUE]
       ELSE [value |-> value, ok |-> FALSE]

----------------------------------------------------------------------------
(* WrappingList (src/src/util.rs) *)

\* a new that selects index 0 of every list
new_always_selects(data) == [data |-> data, state |-> Some(0)]

new(data) == [data |-> data, state |-> IF data # <<>> THEN Some(0) ELSE None]

selected(l) == IF l.state = None THEN None ELSE Some(l.data[unwrap(l.state) + 1])

unwrap_or_default(o) == IF o = None THEN 0 ELSE unwrap(o)

\* a down that stops at the last item
down_clamps(l) ==
    IF l.data = <<>> THEN l
    ELSE LET i == unwrap_or_default(l.state)
         IN [l EXCEPT !.state = Some(IF i + 1 < Len(l.data) THEN i + 1 ELSE i)]

down(l) ==
    IF l.data = <<>> THEN l
    ELSE [l EXCEPT !.state = Some((unwrap_or_default(l.state) + 1) % Len(l.data))]

up(l) ==
    IF l.data = <<>> THEN l
    ELSE [l EXCEPT !.state =
             Some((unwrap_or_default(l.state) + Len(l.data) - 1) % Len(l.data))]

----------------------------------------------------------------------------
(* DotsSpinner (src/src/util.rs) *)

\* the glyphs, by their code points
PATTERN ==
    <<"U+280B", "U+2819", "U+2839", "U+2838", "U+283C",
      "U+2834", "U+2826", "U+2827", "U+2807", "U+280F">>

\* DotsSpinner::new
DotsSpinner_new == [state |-> 0, last_tick |-> None]

\* the Instant of a tick; the model keeps no clock
now == "now"

\* DotsSpinner::tick; elapsed: 80 ms or more have passed since last_tick
tick(spinner, elapsed) ==
    IF spinner.last_tick = None THEN [spinner EXCEPT !.last_tick = Some(now)]
    ELSE IF elapsed
    THEN [state |-> (spinner.state + 1) % Len(PATTERN), last_tick |-> Some(now)]
    ELSE spinner

\* DotsSpinner::pattern
pattern(spinner) == PATTERN[spinner.state + 1]

----------------------------------------------------------------------------
(* State (src/src/main.rs) *)

WidgetId == {"Places", "Search", "Options", "Help", "Error", "ParamEdit"}

Idle == [tag |-> "Idle", msg |-> ""]
Fetching == [tag |-> "Fetching", msg |-> ""]
Error(e) == [tag |-> "Error", msg |-> e]

WIDTH_OPTION == "Width"
HEIGHT_OPTION == "Height"
STROKE_WIDTH_OPTION == "Line width"
BACKGROUND_COLOR == "Background color"
OPEN_OPTION == "Open on save"

\* State::new
State_new ==
    [focus |-> "Search",
     user_city |-> <<>>,
     places |-> new(<<>>),
     params |-> new(<<
         [name |-> WIDTH_OPTION, value |-> F64(FALSE, 1920, <<>>)],
         [name |-> HEIGHT_OPTION, value |-> F64(FALSE, 1080, <<>>)],
         [name |-> STROKE_WIDTH_OPTION, value |-> F64(FALSE, 0, <<"3">>)],
         [name |-> BACKGROUND_COLOR, value |-> StringV(<<"n", "o", "n", "e">>)],
         [name |-> OPEN_OPTION, value |-> BoolV(TRUE)]>>),
     worker_state |-> Idle,
     fetching_spinner |-> DotsSpinner_new,
     parm_edit_state |-> None]

\* ParmEditState::new
ParmEditState_new(value) ==
    LET buffer == to_string(value)
        r == from_str(value, buffer)
    IN [buffer |-> buffer, value |-> r.value, is_valid |-> r.ok]

\* a dispatcher that never takes the worker for busy
worker_busy_never(st) == FALSE

worker_busy(st) == st.worker_state.tag = "Fetching"

\* State::param: the value stored under key
param(st, key) ==
    LET i == CHOOSE j \in 1..Len(st.params.data) : st.params.data[j].name = key
    IN st.params.data[i].value.v

\* a set_current_param that writes the first option
set_first_param(st, value) ==
    IF st.params.state = None THEN st
    ELSE [st EXCEPT !.params.data[1].value = value]

\* State::set_current_param
set_current_param(st, value) ==
    IF st.params.state = None THEN st
    ELSE [st EXCEPT !.params.data[unwrap(st.params.state) + 1].value = value]

----------------------------------------------------------------------------
(* Background tasks *)

NoResult == [ok |-> FALSE, cities |-> <<>>, paths |-> <<>>, err |-> ""]

\* the future and continuation handed to State::fetch: a search for a query
\* or a roads fetch for a place, about to be awaited
SearchTask(user_city) ==
    [kind |-> "search", query |-> user_city, place |-> None,
     stage |-> "awaiting", result |-> NoResult, returned |-> "",
     file |-> None, opened |-> FALSE, path |-> None]
RoadsTask(place) ==
    [kind |-> "roads", query |-> <<>>, place |-> Some(place),
     stage |-> "awaiting", result |-> NoResult, returned |-> "",
     file |-> None, opened |-> FALSE, path |-> None]

\* State::fetch, the part run by the caller: the state it leaves and the
\* task it spawns
fetch(st, task) ==
    [st |-> [st EXCEPT !.worker_state = Fetching,
                       !.fetching_spinner = DotsSpinner_new],
     spawn |-> <<task>>, panic |-> FALSE]

\* a handler that spawns nothing
Plain(st) == [st |-> st, spawn |-> <<>>, panic |-> FALSE]
Panic(st) == [st |-> st, spawn |-> <<>>, panic |-> TRUE]

----------------------------------------------------------------------------
(* Keys *)

Code(name) == [code |-> name, ch |-> ""]
Char(c) == [code |-> "Char", ch |-> c]
Key(code, modifiers) == [code |-> code, modifiers |-> modifiers]

Enter == Code("Enter")
Esc == Code("Esc")
Tab == Code("Tab")
BackTab == Code("BackTab")
Up == Code("Up")
Down == Code("Down")
Backspace == Code("Backspace")
F1 == Code("F1")

\* edit_string: the string after the key and whether the key edited it
edit_string(s, code) ==
    IF code = Backspace THEN [s |-> pop(s), edited |-> TRUE]
    ELSE IF code.code = "Char" THEN [s |-> push(s, code.ch), edited |-> TRUE]
    ELSE [s |-> s, edited |-> FALSE]

\* a Search line that starts the search on Enter whatever the query is
on_search_fetches_empty(code, st) ==
    IF code = Enter THEN fetch(st, SearchTask(st.user_city))
    ELSE
        LET e == edit_string(st.user_city, code)
        IN IF e.edited
           THEN Plain([st EXCEPT !.user_city = e.s, !.places = new(<<>>)])
           ELSE Plain(st)

\* a Search line whose edits leave the places as they are
on_search_keeps_places(code, st) ==
    IF code = Enter THEN
        IF st.user_city # <<>> THEN fetch(st, SearchTask(st.user_city))
        ELSE Plain(st)
    ELSE
        LET e == edit_string(st.user_city, code)
        IN IF e.edited THEN Plain([st EXCEPT !.user_city = e.s]) ELSE Plain(st)

\* a Search line that empties the places when a character is typed and
\* leaves them when one is deleted
on_search_backspace_keeps_places(code, st) ==
    IF code = Enter THEN
        IF st.user_city # <<>> THEN fetch(st, SearchTask(st.user_city))
        ELSE Plain(st)
    ELSE
        LET e == edit_string(st.user_city, code)
        IN IF e.edited /\ code # Backspace
           THEN Plain([st EXCEPT !.user_city = e.s, !.places = new(<<>>)])
           ELSE IF e.edited THEN Plain([st EXCEPT !.user_city = e.s])
           ELSE Plain(st)

\* handle_key_event, focus on Search
on_search(code, st) ==
    IF code = Enter THEN
        IF st.user_city # <<>> THEN fetch(st, SearchTask(st.user_city))
        ELSE Plain(st)
    ELSE
        LET e == edit_string(st.user_city, code)
        IN IF e.edited
           THEN Plain([st EXCEPT !.user_city = e.s, !.places = new(<<>>)])
           ELSE Plain(st)

\* handle_key_event, focus on Places
on_places(code, st) ==
    IF code \in {Up, Char("k")} THEN Plain([st EXCEPT !.places = up(@)])
    ELSE IF code \in {Down, Char("j")} THEN Plain([st EXCEPT !.places = down(@)])
    ELSE IF code = Enter THEN
        IF selected(st.places) # None
        THEN fetch(st, RoadsTask(unwrap(selected(st.places))))
        ELSE Plain(st)
    ELSE Plain(st)

\* handle_key_event, focus on Options
on_options(code, st) ==
    IF code \in {Up, Char("k")} THEN Plain([st EXCEPT !.params = up(@)])
    ELSE IF code \in {Down, Char("j")} THEN Plain([st EXCEPT !.params = down(@)])
    ELSE IF code = Enter THEN
        IF selected(st.params) # None
        THEN Plain([st EXCEPT
                 !.parm_edit_state =
                     Some(ParmEditState_new(unwrap(selected(st.params)).value)),
                 !.focus = "ParamEdit"])
        ELSE Plain(st)
    ELSE Plain(st)

\* a ParamEdit panel whose Esc goes back to Options with the edit state kept
on_param_edit_esc_keeps_state(code, st) ==
    IF st.parm_edit_state = None THEN Panic(st)
    ELSE LET edit_state == unwrap(st.parm_edit_state) IN
    IF code = Enter THEN
        IF edit_state.is_valid
        THEN Plain([set_current_param([st EXCEPT !.parm_edit_state = None],
                                      edit_state.value)
                     EXCEPT !.focus = "Options"])
        ELSE Plain(st)
    ELSE IF code = Esc THEN
        Plain([st EXCEPT !.focus = "Options"])
    ELSE
        LET e == edit_string(edit_state.buffer, code)
            r == from_str(edit_state.value, e.s)
        IN Plain([st EXCEPT !.parm_edit_state =
                     Some([buffer |-> e.s, value |-> r.value, is_valid |-> r.ok])])

\* handle_key_event, focus on ParamEdit
on_param_edit(code, st) ==
    IF st.parm_edit_state = None THEN Panic(st)
    ELSE LET edit_state == unwrap(st.parm_edit_state) IN
    IF code = Enter THEN
        IF edit_state.is_valid
        THEN Plain([set_current_param([st EXCEPT !.parm_edit_state = None],
                                      edit_state.value)
                     EXCEPT !.focus = "Options"])
        ELSE Plain(st)
    ELSE IF code = Esc THEN
        Plain([st EXCEPT !.parm_edit_state = None, !.focus = "Options"])
    ELSE
        LET e == edit_string(edit_state.buffer, code)
            r == from_str(edit_state.value, e.s)
        IN Plain([st EXCEPT !.parm_edit_state =
                     Some([buffer |-> e.s, value |-> r.value, is_valid |-> r.ok])])

\* an Error panel that clears the error and leaves the focus on Error
on_error_keeps_focus(code, st) ==
    IF code = Enter
    THEN Plain([st EXCEPT !.worker_state = Idle])
    ELSE Plain(st)

\* handle_key_event, focus on Error
on_error(code, st) ==
    IF code = Enter
    THEN Plain([st EXCEPT !.worker_state = Idle, !.focus = "Search"])
    ELSE Plain(st)

\* a handler that holds back only Enter while the worker is busy
handle_key_event_busy_on_enter(code, st) ==
    IF worker_busy(st) /\ code = Enter THEN Plain(st)
    ELSE IF st.focus = "Search" THEN on_search(code, st)
    ELSE IF st.focus = "Places" THEN on_places(code, st)
    ELSE IF st.focus = "Options" THEN on_options(code, st)
    ELSE IF st.focus = "ParamEdit" THEN on_param_edit(code, st)
    ELSE IF st.focus = "Help" THEN Plain(st)
    ELSE on_error(code, st)

\* handle_key_event
handle_key_event(code, st) ==
    IF worker_busy(st) THEN Plain(st)
    ELSE IF st.focus = "Search" THEN on_search(code, st)
    ELSE IF st.focus = "Places" THEN on_places(code, st)
    ELSE IF st.focus = "Options" THEN on_options(code, st)
    ELSE IF st.focus = "ParamEdit" THEN on_param_edit(code, st)
    ELSE IF st.focus = "Help" THEN Plain(st)
    ELSE on_error(code, st)

----------------------------------------------------------------------------
(* The background task of State::fetch *)

\* what the awaited request may yield
NetworkError == "NetworkError"
IoError == "IoError"
OpenerError == "OpenerError"

\* a NominatimEntry, reduced to its identifier; found_for is history: the
\* place name whose search returned the entry
Entry(i, place) == [osm_id |-> i, found_for |-> place]
\* the n entries roads::search(place) returns
Cities(n, place) == [i \in 1..n |-> Entry(i, place)]

\* road geometry: a sequence of polylines, each a sequence of points <<x, y>>
\* of finite integer coordinates
Paths == {<<>>, << << <<0, 0>>, <<4, 5>> >> >>}

Ok_cities(cities) == [ok |-> TRUE, cities |-> cities, paths |-> <<>>, err |-> ""]
Ok_paths(paths) == [ok |-> TRUE, cities |-> <<>>, paths |-> paths, err |-> ""]
Err(e) == [ok |-> FALSE, cities |-> <<>>, paths |-> <<>>, err |-> e]

\* the outcomes of roads::search and roads::fetch_roads
Outcomes(task) ==
    IF task.kind = "search"
    THEN {Ok_cities(Cities(n, task.query)) : n \in 0..MaxPlaces}
         \cup {Err(NetworkError)}
    ELSE {Ok_paths(p) : p \in Paths} \cup {Err(NetworkError)}

\* roads::simplify::simplify is not among the sources: Ramer-Douglas-Peucker
\* with the tolerance 3.0, as section 4.B of the specification describes it
EPSILON == 3

\* squared distance of P[k] from the line through P[i] and P[j], times the
\* squared length of P[i]P[j]; the squared distance from P[i] if P[i] = P[j]
Deviation(P, i, j, k) ==
    LET dx == P[j][1] - P[i][1]
        dy == P[j][2] - P[i][2]
        cross == dx * (P[i][2] - P[k][2]) - (P[i][1] - P[k][1]) * dy
    IN IF dx = 0 /\ dy = 0
       THEN (P[k][1] - P[i][1]) * (P[k][1] - P[i][1])
            + (P[k][2] - P[i][2]) * (P[k][2] - P[i][2])
       ELSE cross * cross

\* the value Deviation reaches at the distance EPSILON
Tolerance(P, i, j) ==
    LET dx == P[j][1] - P[i][1]
        dy == P[j][2] - P[i][2]
    IN IF dx = 0 /\ dy = 0 THEN EPSILON * EPSILON
       ELSE EPSILON * EPSILON * (dx * dx + dy * dy)

RECURSIVE Kept(_, _, _)
\* the indices strictly between i and j that the worklist keeps
Kept(P, i, j) ==
    IF j <= i + 1 THEN {}
    ELSE LET k == CHOOSE m \in (i + 1)..(j - 1) :
                      /\ \A o \in (i + 1)..(j - 1) :
                             Deviation(P, i, j, o) <= Deviation(P, i, j, m)
                      /\ \A o \in (i + 1)..(m - 1) :
                             Deviation(P, i, j, o) < Deviation(P, i, j, m)
         IN IF Deviation(P, i, j, k) >= Tolerance(P, i, j)
            THEN {k} \cup Kept(P, i, k) \cup Kept(P, k, j)
            ELSE {}

RECURSIVE Restrict(_, _, _)
\* P restricted to the indices of keep that are i or more, in ascending order
Restrict(P, keep, i) ==
    IF i > Len(P) THEN <<>>
    ELSE (IF i \in keep THEN <<P[i]>> ELSE <<>>) \o Restrict(P, keep, i + 1)

simplify(P) ==
    IF Len(P) <= 2 THEN P
    ELSE Restrict(P, {1, Len(P)} \cup Kept(P, 1, Len(P)), 1)

\* the loop of dump_svg over the paths: each simplified, its y negated
simplified(paths) ==
    [i \in 1..Len(paths) |->
        LET p == simplify(paths[i])
        IN [k \in 1..Len(p) |-> <<p[k][1], 0 - p[k][2]>>]]

\* the points of all the paths
points_of(paths) == UNION {{paths[i][k] : k \in 1..Len(paths[i])} : i \in 1..Len(paths)}

\* some path has a point: of finite coordinates, min_x <= max_x and
\* min_y <= max_y exactly then
has_point(paths) == points_of(paths) # {}

Min(S) == CHOOSE x \in S : \A y \in S : x <= y

\* an element of the document, with the points it lists
Element(tag, points) == [tag |-> tag, points |-> points]

\* the document dump_svg writes: the header, one polyline for each path, the
\* footer.  A point is written as its offset from (min_x, min_y); the scale
\* factor sf and the rounding to two decimals are left out.
document(paths) ==
    LET min_x == Min({pt[1] : pt \in points_of(paths)})
        min_y == Min({pt[2] : pt \in points_of(paths)})
    IN <<Element("?xml", <<>>), Element("svg", <<>>), Element("rect", <<>>),
         Element("g", <<>>)>>
       \o [i \in 1..Len(paths) |->
              Element("polyline",
                      [k \in 1..Len(paths[i]) |->
                          <<paths[i][k][1] - min_x, paths[i][k][2] - min_y>>])]
       \o <<Element("/g", <<>>), Element("/svg", <<>>)>>

\* dump_svg: the error it returns ("" for Ok(())) and what it leaves at path
\* (None: it touched no file).  Nothing is created when no path has a point.
\* File::create may fail (io.create), and so may a write to the created file
\* (io.write), which leaves the document unfinished.
dump_svg(paths, io) ==
    LET ps == simplified(paths)
    IN IF ~has_point(ps) THEN [err |-> "", file |-> None]
       ELSE IF ~io.create THEN [err |-> IoError, file |-> None]
       ELSE IF ~io.write THEN [err |-> IoError, file |-> Some(<<>>)]
       ELSE [err |-> "", file |-> Some(document(ps))]

\* an err closure that records the error and leaves the focus where it is
err_keeps_focus(st, e) ==
    [st EXCEPT !.worker_state = Error(e), !.fetching_spinner = DotsSpinner_new]

\* the err closure of State::fetch
err(st, e) ==
    [st EXCEPT !.worker_state = Error(e), !.focus = "Error",
               !.fetching_spinner = DotsSpinner_new]

\* format!("{}.svg", &state.user_city)
svg_path(user_city) == user_city \o <<".", "s", "v", "g">>

\* the on_success continuations: the state they leave and the error they
\* return ("" for Ok(())), the path handed to dump_svg, the file dump_svg
\* left there and whether the opener was called
on_success(task, st, io) ==
    IF task.kind = "search"
    THEN [st |-> [st EXCEPT !.places = new(task.result.cities), !.focus = "Places"],
          err |-> "", file |-> None, opened |-> FALSE, path |-> None]
    ELSE LET path == svg_path(st.user_city)
             d == dump_svg(task.result.paths, io)
         IN IF d.err # ""
            THEN [st |-> st, err |-> d.err, file |-> d.file, opened |-> FALSE,
                  path |-> Some(path)]
            ELSE IF param(st, OPEN_OPTION)
            THEN [st |-> st, err |-> IF io.open THEN "" ELSE OpenerError,
                  file |-> d.file, opened |-> TRUE, path |-> Some(path)]
            ELSE [st |-> st, err |-> "", file |-> d.file, opened |-> FALSE,
                  path |-> Some(path)]

\* what the file system and the opener answer
IO == [create : BOOLEAN, write : BOOLEAN, open : BOOLEAN]

Running == pc \in {"draw", "wait"}

\* no key was dispatched by the latest step
NoKey == [code |-> Code(""), focus |-> ""]

Remove(seq, i) == SubSeq(seq, 1, i - 1) \o SubSeq(seq, i + 1, Len(seq))

\* fut.await returns and state.lock().unwrap() of the matching arm gets the
\* Mutex
TaskAcquire(i) ==
    /\ Running
    /\ tasks[i].stage = "awaiting"
    /\ lock = "free"
    /\ lock' = "task"
    /\ \E r \in Outcomes(tasks[i]) :
          tasks' = [tasks EXCEPT ![i].stage = "locked", ![i].result = r]
    /\ last' = NoKey
    /\ UNCHANGED <<state, pc>>
    /\ UNCHANGED <<raw_mode, exit_code, pure_vars>>

\* an Ok arm that drops the guard once WorkerState is set
TaskSetIdle_unlocks(i) ==
    /\ Running
    /\ tasks[i].stage = "locked"
    /\ tasks[i].result.ok
    /\ state' = [state EXCEPT !.worker_state = Idle]
    /\ tasks' = [tasks EXCEPT ![i].stage = "idle_set"]
    /\ lock' = "free"
    /\ last' = NoKey
    /\ UNCHANGED pc
    /\ UNCHANGED <<raw_mode, exit_code, pure_vars>>

\* an Ok arm that leaves WorkerState as it is
TaskSetIdle_skips(i) ==
    /\ Running
    /\ tasks[i].stage = "locked"
    /\ tasks[i].result.ok
    /\ tasks' = [tasks EXCEPT ![i].stage = "idle_set"]
    /\ last' = NoKey
    /\ UNCHANGED <<state, lock, pc>>
    /\ UNCHANGED <<raw_mode, exit_code, pure_vars>>

\* Ok arm: state.worker_state = WorkerState::Idle
TaskSetIdle(i) ==
    /\ Running
    /\ tasks[i].stage = "locked"
    /\ tasks[i].result.ok
    /\ state' = [state EXCEPT !.worker_state = Idle]
    /\ tasks' = [tasks EXCEPT ![i].stage = "idle_set"]
    /\ last' = NoKey
    /\ UNCHANGED <<lock, pc>>
    /\ UNCHANGED <<raw_mode, exit_code, pure_vars>>

\* Ok arm: on_success(&mut state, d) runs and returns
TaskOnSuccess(i) ==
    /\ Running
    /\ tasks[i].stage = "idle_set"
    /\ \E io \in IO :
          LET r == on_success(tasks[i], state, io)
          IN /\ state' = r.st
             /\ tasks' = [tasks EXCEPT ![i].stage = "called", ![i].returned = r.err,
                                       ![i].file = r.file, ![i].opened = r.opened,
                                       ![i].path = r.path]
    /\ last' = NoKey
    /\ UNCHANGED <<lock, pc>>
    /\ UNCHANGED <<raw_mode, exit_code, pure_vars>>

\* Ok arm: err if on_success returned an error, and the guard dropped
TaskFinish(i) ==
    /\ Running
    /\ tasks[i].stage = "called"
    /\ state' = IF tasks[i].returned # "" THEN err(state, tasks[i].returned) ELSE state
    /\ tasks' = Remove(tasks, i)
    /\ lock' = "free"
    /\ last' = NoKey
    /\ UNCHANGED pc
    /\ UNCHANGED <<raw_mode, exit_code, pure_vars>>

\* Err arm: err, and the guard dropped
TaskErr(i) ==
    /\ Running
    /\ tasks[i].stage = "locked"
    /\ ~tasks[i].result.ok
    /\ state' = err(state, tasks[i].result.err)
    /\ tasks' = Remove(tasks, i)
    /\ lock' = "free"
    /\ last' = NoKey
    /\ UNCHANGED pc
    /\ UNCHANGED <<raw_mode, exit_code, pure_vars>>

----------------------------------------------------------------------------
(* main_loop *)

tab_order == <<"Search", "Places", "Options", "Help">>

\* tab_order.iter().position(|w| w == &focus)
position(focus) ==
    IF \E i \in 1..Len(tab_order) : tab_order[i] = focus
    THEN Some((CHOOSE i \in 1..Len(tab_order) : tab_order[i] = focus) - 1)
    ELSE None

\* a Tab / BackTab arm that takes a focus outside tab_order for its first
\* entry
cycle_focus_from_any(code, st) ==
    LET current == unwrap_or_default(position(st.focus))
        next == current + (IF code = Tab THEN 1 ELSE Len(tab_order) - 1)
    IN Plain([st EXCEPT !.focus = tab_order[(next % Len(tab_order)) + 1]])

\* the Tab / BackTab arm of main_loop
cycle_focus(code, st) ==
    LET current == position(st.focus)
    IN IF current = None THEN Panic(st)
       ELSE LET next == unwrap(current)
                        + (IF code = Tab THEN 1 ELSE Len(tab_order) - 1)
            IN Plain([st EXCEPT !.focus = tab_order[(next % Len(tab_order)) + 1]])

is_interrupt(key) ==
    \/ key.code = Esc
    \/ key = Key(Char("c"), "CONTROL")

\* the keys of the modelled keyboard
Keys ==
    {Key(c, "NONE") : c \in {Enter, Esc, Tab, BackTab, Up, Down, Backspace, F1}}
    \cup {Key(Char(c), "NONE") : c \in Chars}
    \cup {Key(Char("c"), "CONTROL")}

\* the key opens the parameter editor
opens_editor(key, st) ==
    /\ key.code = Enter
    /\ st.focus = "Options"
    /\ ~worker_busy(st)
    /\ selected(st.params) # None

\* the keys the modelled user presses: a character only into a buffer shorter
\* than its bound, and the editor opened only on the options of Edited
Pressed(key) ==
    /\ key.code.code = "Char" =>
        /\ (state.focus = "Search" /\ ~worker_busy(state)) =>
               Len(state.user_city) < MaxCity
        /\ (state.focus = "ParamEdit" /\ state.parm_edit_state # None) =>
               Len(unwrap(state.parm_edit_state).buffer) < MaxBuf
    /\ opens_editor(key, state) => unwrap(selected(state.params)).name \in Edited

\* draw: the state it leaves.  The spinner ticks while the worker is
\* Fetching and advances if 80 ms have passed (elapsed)
draw(st, elapsed) ==
    IF st.worker_state = Fetching
    THEN [st EXCEPT !.fetching_spinner = tick(@, elapsed)]
    ELSE st

\* terminal.draw: the closure locks the state and draws it
Draw ==
    /\ pc = "draw"
    /\ lock = "free"
    /\ pc' = IF /\ state.worker_state.tag # "Error"
                /\ state.focus = "ParamEdit"
                /\ state.parm_edit_state = None
             THEN "panicked" ELSE "wait"
    /\ \E elapsed \in BOOLEAN :
          /\ elapsed => state.fetching_spinner.state < MaxTicks
          /\ state' = draw(state, elapsed)
    /\ last' = NoKey
    /\ UNCHANGED <<lock, tasks>>
    /\ UNCHANGED <<raw_mode, exit_code, pure_vars>>

\* main_loop is left: its State is dropped, and no task is polled again
\* before the Runtime is dropped with them
Dropped ==
    /\ state' = State_new
    /\ tasks' = <<>>
    /\ last' = NoKey

\* terminal.draw fails and `?` returns the error
DrawFail ==
    /\ pc = "draw"
    /\ pc' = "failed"
    /\ Dropped
    /\ UNCHANGED lock
    /\ UNCHANGED <<raw_mode, exit_code, pure_vars>>

\* the 50 ms timeout expires, or the event is not a key: continue
Continue ==
    /\ pc = "wait"
    /\ pc' = "draw"
    /\ UNCHANGED <<state, lock, tasks, last>>
    /\ UNCHANGED <<raw_mode, exit_code, pure_vars>>

\* the event stream ends or fails: break
StreamEnd ==
    /\ pc = "wait"
    /\ lock = "free"
    /\ pc' = "exited"
    /\ Dropped
    /\ UNCHANGED lock
    /\ UNCHANGED <<raw_mode, exit_code, pure_vars>>

\* what main_loop does with a key event, under the lock
dispatch(key, st) ==
    IF st.focus # "ParamEdit" /\ key.code \in {Tab, BackTab}
    THEN cycle_focus(key.code, st)
    ELSE handle_key_event(key.code, st)

\* a key event arrives
KeyEvent(key) ==
    /\ pc = "wait"
    /\ lock = "free"
    /\ Pressed(key)
    /\ IF state.focus # "ParamEdit" /\ is_interrupt(key)
       THEN /\ pc' = "exited"
            /\ Dropped
       ELSE LET r == dispatch(key, state)
            IN /\ state' = r.st
               /\ tasks' = tasks \o r.spawn
               /\ pc' = IF r.panic THEN "panicked" ELSE "draw"
               /\ last' = [code |-> key.code, focus |-> state.focus]
    /\ UNCHANGED lock
    /\ UNCHANGED <<raw_mode, exit_code, pure_vars>>

\* main after block_on(main_loop(..)), whose result it drops: terminal.clear()?
\* and disable_raw_mode()? may each fail and return the error, else Ok(())
MainReturn ==
    /\ pc \in {"exited", "failed"}
    /\ \E clear_ok, disable_ok \in BOOLEAN :
          IF clear_ok /\ disable_ok
          THEN raw_mode' = FALSE /\ exit_code' = Some(0)
          ELSE raw_mode' = raw_mode /\ exit_code' = Some(1)
    /\ pc' = "done"
    /\ UNCHANGED <<state, lock, tasks, last, pure_vars>>

\* a panic of the main thread unwinds out of main
MainPanic ==
    /\ pc = "panicked"
    /\ exit_code' = Some(101)
    /\ pc' = "done"
    /\ Dropped
    /\ UNCHANGED <<lock, raw_mode, pure_vars>>

----------------------------------------------------------------------------
(* Specification *)

\* main has put the terminal in raw mode and main_loop has built its State
MainInit ==
    /\ state = State_new
    /\ lock = "free"
    /\ tasks = <<>>
    /\ pc = "draw"
    /\ last = NoKey
    /\ raw_mode = TRUE
    /\ exit_code = None

\* no function is under test on its own
ListIdle == list = new(<<>>) /\ calls = <<>>
QueryIdle == chosen = None /\ request = None
SvgIdle == polylines = <<>> /\ file = None

Init == MainInit /\ ListIdle /\ QueryIdle /\ SvgIdle

Next ==
    \/ Draw
    \/ DrawFail
    \/ Continue
    \/ StreamEnd
    \/ MainReturn
    \/ MainPanic
    \/ \E key \in Keys : KeyEvent(key)
    \/ \E i \in 1..Len(tasks) : TaskAcquire(i)
    \/ \E i \in 1..Len(tasks) : TaskSetIdle(i)
    \/ \E i \in 1..Len(tasks) : TaskOnSuccess(i)
    \/ \E i \in 1..Len(tasks) : TaskFinish(i)
    \/ \E i \in 1..Len(tasks) : TaskErr(i)

Spec == Init /\ [][Next]_vars

\* a step of a background task
TaskStep ==
    \E i \in 1..Len(tasks) :
        \/ TaskAcquire(i)
        \/ TaskSetIdle(i)
        \/ TaskOnSuccess(i)
        \/ TaskFinish(i)
        \/ TaskErr(i)

\* The runtime keeps polling a spawned task: its future resolves and, the
\* foreground holding the Mutex only inside one draw or one dispatch, its
\* lock() returns.
LiveSpec == Spec /\ WF_vars(TaskStep)

----------------------------------------------------------------------------
(* WrappingList on its own: new(data), then any calls of up and down *)

\* longest list under test
MaxItems == 3
\* most calls made on one list: enough for a full turn and one more
MaxCalls == MaxItems + 1

Items == {"a", "b"}

RECURSIVE SeqsUpTo(_, _)
\* the sequences over S of length n or less
SeqsUpTo(S, n) ==
    IF n = 0 THEN {<<>>}
    ELSE LET shorter == SeqsUpTo(S, n - 1)
         IN shorter \cup {Append(s, x) : s \in {t \in shorter : Len(t) = n - 1}, x \in S}

\* WrappingList::selected_ix
selected_ix(l) == l.state

ListInit ==
    /\ \E data \in SeqsUpTo(Items, MaxItems) : list = new(data)
    /\ calls = <<[op |-> "new", ix |-> selected_ix(list)]>>
    /\ MainInit /\ QueryIdle /\ SvgIdle

ListUp ==
    /\ Len(calls) <= MaxCalls
    /\ list' = up(list)
    /\ calls' = Append(calls, [op |-> "up", ix |-> selected_ix(list')])
    /\ UNCHANGED <<main_vars, chosen, request, polylines, file>>

ListDown ==
    /\ Len(calls) <= MaxCalls
    /\ list' = down(list)
    /\ calls' = Append(calls, [op |-> "down", ix |-> selected_ix(list')])
    /\ UNCHANGED <<main_vars, chosen, request, polylines, file>>

ListNext == ListUp \/ ListDown

ListSpec == ListInit /\ [][ListNext]_vars

----------------------------------------------------------------------------
(* fetch_roads on its own (src/src/lib.rs): the Overpass query it builds *)

\* largest small osm_id handed to fetch_roads
MaxOsmId == 2

\* An i64 too large for the model's integers is the sequence of its decimal
\* digits.  The ids of OpenStreetMap are far below i64::MAX - 3_600_000_000:
\* the sums of fetch_roads do not overflow.
RELATION_AREA == <<"3", "6", "0", "0", "0", "0", "0", "0", "0", "0">>
WAY_AREA == <<"2", "4", "0", "0", "0", "0", "0", "0", "0", "0">>

RECURSIVE AddDigits(_, _, _)
\* the decimal digits of a + b + carry, a and b given by their digits
AddDigits(a, b, carry) ==
    IF a = <<>> /\ b = <<>> THEN (IF carry = 0 THEN <<>> ELSE <<DigitChars[carry + 1]>>)
    ELSE LET x == IF a = <<>> THEN 0 ELSE DigitVal(a[Len(a)])
             y == IF b = <<>> THEN 0 ELSE DigitVal(b[Len(b)])
             sum == x + y + carry
         IN AddDigits(pop(a), pop(b), sum \div 10) \o <<DigitChars[(sum % 10) + 1]>>

\* a NominatimEntry, reduced to the fields fetch_roads reads
NominatimEntry(osm_type, osm_id, boundingbox) ==
    [osm_type |-> osm_type, osm_id |-> osm_id, boundingbox |-> boundingbox]

OsmTypes == {"relation", "way", "node", ""}
OsmIds == (1..MaxOsmId) \cup {99999999, 100000000, 1300000000}
Coordinates == {"48.1", "48.2", "11.5", "11.6"}
Entries ==
    {NominatimEntry(t, i, b) :
        t \in OsmTypes, i \in OsmIds, b \in [0..3 -> Coordinates]}

\* the lines of the two queries that hold no argument
BBOX_WAYS ==
    <<"// way[highway~\"^(motorway|primary|secondary|tertiary)|residential\"];", "\n",
      "way[highway];", "\n", "out geom;">>
AREA_WAYS ==
    <<"// way(area.a)[highway~\"^(motorway|primary|secondary|tertiary)|residential\"];",
      "\n", "way(area.a)[highway];", "\n", "out geom;">>

\* a query whose bbox clause takes the bounding box in its stored order
query_bbox_in_order(entry) ==
    IF entry.osm_type # "relation" /\ entry.osm_type # "way"
    THEN <<"[out:json]", "[timeout:60]", "[bbox:",
           entry.boundingbox[0], ",", entry.boundingbox[1], ",",
           entry.boundingbox[2], ",", entry.boundingbox[3], "]", ";", "\n">>
         \o BBOX_WAYS
    ELSE <<"[out:json]", "[timeout:60]", ";", "\n", "area(">>
         \o (IF entry.osm_type = "relation"
             THEN AddDigits(RELATION_AREA, DigitsOfNat(entry.osm_id), 0)
             ELSE AddDigits(WAY_AREA, DigitsOfNat(entry.osm_id), 0))
         \o <<")", "->.a;", "\n">> \o AREA_WAYS

\* the query of fetch_roads, as the sequence of its tokens; a number is
\* written as its digits
query(entry) ==
    IF entry.osm_type # "relation" /\ entry.osm_type # "way"
    THEN <<"[out:json]", "[timeout:60]", "[bbox:",
           entry.boundingbox[0], ",", entry.boundingbox[2], ",",
           entry.boundingbox[1], ",", entry.boundingbox[3], "]", ";", "\n">>
         \o BBOX_WAYS
    ELSE <<"[out:json]", "[timeout:60]", ";", "\n", "area(">>
         \o (IF entry.osm_type = "relation"
             THEN AddDigits(RELATION_AREA, DigitsOfNat(entry.osm_id), 0)
             ELSE AddDigits(WAY_AREA, DigitsOfNat(entry.osm_id), 0))
         \o <<")", "->.a;", "\n">> \o AREA_WAYS

QueryInit ==
    /\ chosen \in Entries
    /\ request = None
    /\ MainInit /\ ListIdle /\ SvgIdle

\* fetch_roads builds the query it is about to post
BuildQuery ==
    /\ request = None
    /\ request' = Some(query(chosen))
    /\ UNCHANGED <<main_vars, list, calls, chosen, polylines, file>>

QueryNext == BuildQuery

QuerySpec == QueryInit /\ [][QueryNext]_vars

----------------------------------------------------------------------------
(* dump_svg on its own *)

\* most paths handed to dump_svg
MaxPaths == 2
\* most points of one path
MaxPoints == 3

Points == {<<0, 0>>, <<4, 5>>}

SvgInit ==
    /\ polylines \in SeqsUpTo(SeqsUpTo(Points, MaxPoints), MaxPaths)
    /\ file = None
    /\ MainInit /\ ListIdle /\ QueryIdle

\* dump_svg runs and returns
DumpSvg ==
    /\ file = None
    /\ \E io \in IO : file' = Some(dump_svg(polylines, io))
    /\ UNCHANGED <<main_vars, list, calls, chosen, request, polylines>>

SvgNext == DumpSvg

SvgSpec == SvgInit /\ [][SvgNext]_vars

----------------------------------------------------------------------------
(* Properties *)

KeyCodes == {key.code : key \in Keys}

\* this step is main_loop dispatching the key code (an interrupt key that
\* exits is not dispatched)
Dispatched(code) ==
    /\ pc = "wait"
    /\ pc' \in {"draw", "panicked"}
    /\ last' = [code |-> code, focus |-> state.focus]

\* this step is State::fetch spawning a task
Spawned == Len(tasks') > Len(tasks)

\* this step is a background task ending
Completed == Running' /\ Len(tasks') < Len(tasks)

\* C1: at most one background task is outstanding in every reachable state,
\* and every step that spawns one (State::fetch) starts from WorkerState Idle.
C1_OneTaskFetchFromIdle ==
    /\ [](Len(tasks) <= 1)
    /\ [][Spawned => state.worker_state = Idle]_vars

\* a fetch is outstanding
C1_Witness ==
    /\ Len(tasks) = 1
    /\ state.worker_state = Fetching

\* C2 as claimed: while Fetching, no dispatched key changes the UI state.
C2_AllKeysIgnoredWhileFetching ==
    [][\A code \in KeyCodes :
          (state.worker_state = Fetching /\ Dispatched(code)) => state' = state]_vars

\* C2 as amended: while Fetching, a dispatched key other than Tab and BackTab
\* changes nothing and starts nothing; Tab and BackTab change the focus and
\* nothing else.
C2_PanelKeysIgnoredWhileFetching ==
    [][\A code \in KeyCodes :
          (state.worker_state = Fetching /\ Dispatched(code)) =>
              /\ tasks' = tasks
              /\ IF code \in {Tab, BackTab}
                 THEN /\ state' = [state EXCEPT !.focus = state'.focus]
                      /\ state'.focus # state.focus
                 ELSE state' = state]_vars

\* a Backspace was dispatched while the worker was Fetching
C2_Witness ==
    /\ pc = "draw"
    /\ last.code = Backspace
    /\ last.focus = "Search"
    /\ state.worker_state = Fetching

\* C3: when a background task ends, a failure (the error the request yielded,
\* or else the error on_success returned) leaves WorkerState = Error(that
\* error) and focus = Error; without a failure WorkerState is Idle and the
\* focus is not Error.
C3_CompletionOutcome ==
    [][Completed =>
          LET t == tasks[1]
              e == IF ~t.result.ok THEN t.result.err ELSE t.returned
          IN IF e # ""
             THEN state'.worker_state = Error(e) /\ state'.focus = "Error"
             ELSE state'.worker_state = Idle /\ state'.focus # "Error"]_vars

\* a roads fetch whose continuation failed has ended
C3_Witness ==
    /\ tasks = <<>>
    /\ state.worker_state = Error(OpenerError)
    /\ state.focus = "Error"

\* C4: Enter on the Error panel sets WorkerState to Idle and the focus to
\* Search, changes nothing else of the state and spawns nothing; in the state
\* it leaves, Enter on a non-empty query starts a fetch.
C4_EnterClearsError ==
    [][(state.focus = "Error" /\ Dispatched(Enter)) =>
          /\ state' = [state EXCEPT !.worker_state = Idle, !.focus = "Search"]
          /\ tasks' = tasks
          /\ tasks = <<>>
          /\ pc' = "draw"
          /\ state'.user_city # <<>> =>
                 handle_key_event(Enter, state').spawn # <<>>]_vars

\* the error of a failed search has just been acknowledged with Enter
C4_Witness ==
    /\ pc = "draw"
    /\ last = [code |-> Enter, focus |-> "Error"]
    /\ state.focus = "Search"
    /\ state.worker_state = Idle
    /\ state.user_city # <<>>

\* C5: as long as the process runs, WorkerState = Fetching leads to
\* WorkerState = Idle or Error.
C5_FetchingEnds ==
    (state.worker_state = Fetching) ~> (state.worker_state # Fetching \/ ~Running)

\* a search was started from this query and has ended with places found
C5_Witness ==
    /\ tasks = <<>>
    /\ state.worker_state = Idle
    /\ state.places.data # <<>>
    /\ state.user_city # <<>>

\* this step is main_loop drawing a frame
Drawn == pc = "draw" /\ pc' \in {"wait", "panicked"}

\* C6: whenever the foreground draws a frame or dispatches a key, the Mutex
\* is free and no background task is between the first and the last update
\* of its completion.
C6_CompletionAtomic ==
    [][(Drawn \/ \E code \in KeyCodes : Dispatched(code)) =>
          /\ lock = "free"
          /\ \A i \in 1..Len(tasks) : tasks[i].stage = "awaiting"]_vars

\* a completion has set WorkerState and not yet run on_success, while the
\* foreground is waiting to dispatch
C6_Witness ==
    /\ pc = "wait"
    /\ lock = "task"
    /\ tasks # <<>>
    /\ tasks[1].stage = "idle_set"
    /\ state.worker_state = Idle

\* C7 as claimed: Tab and BackTab dispatched with any focus but ParamEdit
\* leave the program running with the focus on a panel of tab_order, one
\* step forward (backward) from a focus that is in tab_order, and BackTab
\* after Tab restores the focus.
C7_TabCyclesFromEveryPanel ==
    [][\A code \in {Tab, BackTab} :
          (state.focus # "ParamEdit" /\ Dispatched(code)) =>
              /\ pc' = "draw"
              /\ \E i \in 1..Len(tab_order) : state'.focus = tab_order[i]
              /\ position(state.focus) # None =>
                     /\ unwrap(position(state'.focus)) =
                            (unwrap(position(state.focus))
                             + (IF code = Tab THEN 1 ELSE Len(tab_order) - 1))
                            % Len(tab_order)
                     /\ code = Tab => cycle_focus(BackTab, state').st = state]_vars

\* the value ParamEdit holds for the option under edit
edit_state == unwrap(state.parm_edit_state)
\* the option ParamEdit was opened on
edited_option == unwrap(selected(state.params))

\* C8: in ParamEdit, Enter commits iff the buffer parses to the type of the
\* selected option: then that option, and no other, takes the working value
\* (a value of its own type) and the focus returns to Options; otherwise
\* Enter changes nothing.  Esc drops the edit, changes no option and returns
\* to Options.  While ParamEdit is open the options and the selection do not
\* change, so the selected option is the one the edit was opened on.
C8_CommitIffParses ==
    /\ [][(state.focus = "ParamEdit" /\ Dispatched(Enter)) =>
            /\ tasks' = tasks
            /\ IF parse(edited_option.value.type, edit_state.buffer) # None
               THEN /\ state' = [state EXCEPT
                          !.params.data[unwrap(state.params.state) + 1].value =
                              edit_state.value,
                          !.parm_edit_state = None,
                          !.focus = "Options"]
                    /\ edit_state.value.type = edited_option.value.type
               ELSE state' = state]_vars
    /\ [][(state.focus = "ParamEdit" /\ Dispatched(Esc)) =>
            /\ tasks' = tasks
            /\ state' = [state EXCEPT !.parm_edit_state = None,
                                      !.focus = "Options"]]_vars
    /\ [][(state.focus = "ParamEdit" /\ state'.focus = "ParamEdit") =>
            state'.params = state.params]_vars

\* an edit of "Line width" has just been committed with a new value
C8_Witness ==
    /\ pc = "draw"
    /\ last = [code |-> Enter, focus |-> "ParamEdit"]
    /\ state.focus = "Options"
    /\ state.parm_edit_state = None
    /\ edited_option.name = STROKE_WIDTH_OPTION
    /\ edited_option.value # F64(FALSE, 0, <<"3">>)

\* the buffer after a key that is neither Enter nor Esc
edited(buffer, code) ==
    IF code = Backspace THEN pop(buffer)
    ELSE IF code.code = "Char" THEN push(buffer, code.ch)
    ELSE buffer

\* C9: in ParamEdit, a key other than Enter and Esc edits the buffer (a
\* character is appended, Backspace removes the last one) and the buffer is
\* parsed again: on success the edit is valid and its working value is the
\* parse; on failure it is invalid and keeps its working value.  Nothing else
\* changes.  So in every ParamEdit state the edit is valid iff its buffer
\* parses, and a valid edit holds the parse of its buffer.
C9_ReparseOnEveryKey ==
    /\ [][\A code \in KeyCodes \ {Enter, Esc} :
            (state.focus = "ParamEdit" /\ Dispatched(code)) =>
                LET buffer == edited(edit_state.buffer, code)
                    r == parse(edit_state.value.type, buffer)
                    after == unwrap(state'.parm_edit_state)
                IN /\ tasks' = tasks
                   /\ state' = [state EXCEPT !.parm_edit_state = Some(after)]
                   /\ after.buffer = buffer
                   /\ IF r # None
                      THEN after.is_valid /\ after.value = unwrap(r)
                      ELSE ~after.is_valid /\ after.value = edit_state.value]_vars
    /\ [](state.focus = "ParamEdit" =>
            /\ state.parm_edit_state # None
            /\ edit_state.is_valid <=>
                   parse(edit_state.value.type, edit_state.buffer) # None
            /\ edit_state.is_valid =>
                   Some(edit_state.value) =
                       parse(edit_state.value.type, edit_state.buffer))

\* Backspace has emptied the buffer of a "Width" edit: the edit is invalid and
\* keeps the value of the last buffer that parsed, "1"
C9_Witness ==
    /\ pc = "draw"
    /\ last = [code |-> Backspace, focus |-> "ParamEdit"]
    /\ state.focus = "ParamEdit"
    /\ edit_state.buffer = <<>>
    /\ ~edit_state.is_valid
    /\ edit_state.value = F64(FALSE, 1, <<>>)

\* an f64 of the model is > 0, is >= 0
positive(v) == ~v[1] /\ (v[2] > 0 \/ v[3] # <<>>)
non_negative(v) == ~v[1] \/ (v[2] = 0 /\ v[3] = <<>>)

\* C10 as claimed: "Width" and "Height" are positive and "Line width" is not
\* negative in every reachable state.
C10_OptionsInDomain ==
    /\ positive(param(state, WIDTH_OPTION))
    /\ positive(param(state, HEIGHT_OPTION))
    /\ non_negative(param(state, STROKE_WIDTH_OPTION))

\* the index a list of n items has after op was called at index i
moved(op, i, n) == IF op = "down" THEN (i + 1) % n ELSE (i + n - 1) % n

\* C11: after new(data) and any calls of up and down, an index is selected iff
\* the list is not empty and it is an index of the list, so that selected()
\* reads inside the data; new selects 0 iff data is not empty; on a list of
\* n > 0 items down moves the index i to (i+1) mod n and up to (i+n-1) mod n;
\* on an empty list both change nothing; no call changes the data.
C11_SelectionInRange ==
    /\ [](/\ selected_ix(list) # None <=> list.data # <<>>
          /\ selected_ix(list) # None =>
                 /\ unwrap(selected_ix(list)) \in 0..(Len(list.data) - 1)
                 /\ unwrap(selected_ix(list)) + 1 \in DOMAIN list.data
                 /\ selected(list) = Some(list.data[unwrap(selected_ix(list)) + 1])
          /\ selected_ix(list) = None => selected(list) = None
          /\ calls # <<>> =>
                 calls[1].ix = (IF list.data # <<>> THEN Some(0) ELSE None))
    /\ [][Len(calls') > Len(calls) =>
            LET call == calls'[Len(calls')]
                n == Len(list.data)
            IN /\ list'.data = list.data
               /\ call.ix = selected_ix(list')
               /\ IF n = 0 THEN list' = list
                  ELSE selected_ix(list') =
                           Some(moved(call.op, unwrap(selected_ix(list)), n))]_vars

\* up was called on a fresh list of two or more items and wrapped to the last
C11_Witness ==
    /\ Len(list.data) >= 2
    /\ Len(calls) = 2
    /\ calls[2].op = "up"
    /\ selected_ix(list) = Some(Len(list.data) - 1)

\* the calls k+1 .. k+n of the history are all calls of op
Repeated(op, k, n) == \A j \in 1..n : calls[k + j].op = op

\* C12: on a list of n >= 1 items, up then down and down then up leave the
\* index where it was, and so do n ups in a row and n downs in a row.
C12_UpDownInverse ==
    LET n == Len(list.data)
    IN n >= 1 =>
        /\ \A k \in 1..(Len(calls) - 2) :
               {calls[k + 1].op, calls[k + 2].op} = {"up", "down"} =>
                   calls[k + 2].ix = calls[k].ix
        /\ \A k \in 1..(Len(calls) - n) : \A op \in {"up", "down"} :
               Repeated(op, k, n) => calls[k + n].ix = calls[k].ix

\* a list of three or more items went down, then a full turn up
C12_Witness ==
    /\ Len(list.data) >= 3
    /\ Len(calls) = Len(list.data) + 2
    /\ calls[2].op = "down"
    /\ Repeated("up", 2, Len(list.data))
    /\ selected_ix(list) = Some(1)

\* C13: Enter dispatched with the focus on Search and an empty query spawns
\* no task and changes nothing of the state: WorkerState stays Idle, the focus
\* stays on Search, the query, the places and the options are as before.
C13_EnterOnEmptyQuery ==
    [][(state.focus = "Search" /\ state.user_city = <<>> /\ Dispatched(Enter)) =>
          /\ tasks' = tasks
          /\ tasks' = <<>>
          /\ state' = state
          /\ state'.worker_state = Idle
          /\ state'.focus = "Search"
          /\ pc' = "draw"]_vars

\* Enter has just been dispatched to the Search line with an empty query
C13_Witness ==
    /\ pc = "draw"
    /\ last = [code |-> Enter, focus |-> "Search"]
    /\ state.user_city = <<>>
    /\ state.worker_state = Idle
    /\ tasks = <<>>

\* position of the first token tok of q, or 0
IndexOf(q, tok) ==
    IF \E i \in 1..Len(q) : q[i] = tok
    THEN CHOOSE i \in 1..Len(q) : q[i] = tok /\ \A j \in 1..(i - 1) : q[j] # tok
    ELSE 0

\* the tokens of q after the first open, up to the next close
Between(q, open, close) ==
    LET rest == SubSeq(q, IndexOf(q, open) + 1, Len(q))
    IN SubSeq(rest, 1, IndexOf(rest, close) - 1)

\* the digits d spell offset * 10^8 + id
Spells(d, offset, id) ==
    /\ Len(d) > 8
    /\ \A i \in 1..Len(d) : d[i] \in Digits
    /\ d[1] # "0"
    /\ NatOfDigits(SubSeq(d, Len(d) - 7, Len(d))) = id % 100000000
    /\ NatOfDigits(SubSeq(d, 1, Len(d) - 8)) = offset + id \div 100000000

\* C14: the query built for an entry of osm_type "relation" has the clause
\* area(3600000000 + osm_id), for "way" area(2400000000 + osm_id), and neither
\* has a bbox clause; for any other osm_type the query has no area clause and
\* has the clause [bbox:b0,b2,b1,b3] of boundingbox[0], [2], [1], [3].
C14_QueryAreaOrBbox ==
    request # None =>
        LET q == unwrap(request)
            b == chosen.boundingbox
        IN IF chosen.osm_type = "relation"
           THEN /\ Spells(Between(q, "area(", ")"), 36, chosen.osm_id)
                /\ IndexOf(q, "[bbox:") = 0
           ELSE IF chosen.osm_type = "way"
           THEN /\ Spells(Between(q, "area(", ")"), 24, chosen.osm_id)
                /\ IndexOf(q, "[bbox:") = 0
           ELSE /\ IndexOf(q, "area(") = 0
                /\ IndexOf(q, "[bbox:") > 0
                /\ Between(q, "[bbox:", "]") =
                       <<b[0], ",", b[2], ",", b[1], ",", b[3]>>

\* the query built for a node with the bounding box 48.1, 48.2, 11.5, 11.6
C14_Witness ==
    /\ request # None
    /\ chosen.osm_type = "node"
    /\ chosen.boundingbox =
           (0 :> "48.1" @@ 1 :> "48.2" @@ 2 :> "11.5" @@ 3 :> "11.6")
    /\ Between(unwrap(request), "[bbox:", "]") =
           <<"48.1", ",", "11.5", ",", "48.2", ",", "11.6">>

\* how many elements of seq satisfy Test
Count(seq, Test(_)) == Cardinality({i \in 1..Len(seq) : Test(seq[i])})

is_polyline(element) == element.tag = "polyline"
is_non_empty(path) == path # <<>>

\* C15 as claimed: a dump_svg that returns Ok has left no file if no path
\* has a point, and otherwise a document with as many polyline elements as
\* there are paths with a point.
C15_OnePolylinePerNonEmptyPath ==
    (file # None /\ unwrap(file).err = "") =>
        IF Count(polylines, is_non_empty) = 0
        THEN unwrap(file).file = None
        ELSE /\ unwrap(file).file # None
             /\ Count(unwrap(unwrap(file).file), is_polyline)
                    = Count(polylines, is_non_empty)

\* C16 as claimed: a roads fetch that ends having fetched no path with a
\* point has written no file and leaves WorkerState Idle and the focus off
\* the Error panel, whatever the options are.
C16_NoGeometryIsNoError ==
    [][Completed =>
          LET t == tasks[1]
          IN (t.kind = "roads" /\ t.result.ok /\ ~has_point(t.result.paths)) =>
                 /\ t.file = None
                 /\ state'.worker_state = Idle
                 /\ state'.focus # "Error"]_vars

\* C17 as claimed: when main returns after a quit the exit code is 0 and raw
\* mode is off (or the terminal failed after the loop, which the claim does
\* not speak of); when it returns after a failed draw the exit code is not 0
\* and raw mode is off.
C17_ExitCodeAndRawMode ==
    [][pc' = "done" =>
          /\ pc = "exited" =>
                 \/ exit_code' = Some(0) /\ ~raw_mode'
                 \/ exit_code' = Some(1) /\ raw_mode'
          /\ pc = "failed" =>
                 /\ exit_code' \notin {None, Some(0)}
                 /\ ~raw_mode']_vars

\* this step is main_loop handing the key code to handle_key_event
Handled(code) ==
    /\ Dispatched(code)
    /\ ~(state.focus # "ParamEdit" /\ code \in {Tab, BackTab})

\* C18: while WorkerState is Fetching, handle_key_event returns the state it
\* was given and spawns nothing, for every key and every focus, and so does
\* every step that hands it a key; a draw changes the spinner at most, by one
\* glyph at most; and as long as the worker stays Fetching the spinner
\* changes in draws only.
C18_OnlySpinnerMovesWhileFetching ==
    /\ [](state.worker_state = Fetching =>
            \A code \in KeyCodes : \A focus \in WidgetId :
                LET st == [state EXCEPT !.focus = focus]
                IN handle_key_event(code, st) = Plain(st))
    /\ [][\A code \in KeyCodes :
            (state.worker_state = Fetching /\ Handled(code)) =>
                state' = state /\ tasks' = tasks]_vars
    /\ [][(state.worker_state = Fetching /\ Drawn) =>
            /\ state' = [state EXCEPT !.fetching_spinner = state'.fetching_spinner]
            /\ state'.fetching_spinner.state \in
                   {state.fetching_spinner.state,
                    (state.fetching_spinner.state + 1) % Len(PATTERN)}]_vars
    /\ [][(/\ state.worker_state = Fetching
           /\ state'.worker_state = Fetching
           /\ state'.fetching_spinner # state.fetching_spinner) => Drawn]_vars

\* the spinner has advanced during a roads fetch, and Enter was just handed
\* to the Places panel
C18_Witness ==
    /\ pc = "draw"
    /\ last = [code |-> Enter, focus |-> "Places"]
    /\ state.worker_state = Fetching
    /\ state.fetching_spinner.state = 1
    /\ Len(tasks) = 1
    /\ tasks[1].kind = "roads"

\* C19: with the focus on Search and the worker not Fetching, a dispatched
\* character is appended to the query and a dispatched Backspace removes its
\* last character, and either leaves the places empty with nothing selected
\* and nothing else changed; a dispatched key that is neither of these nor
\* Enter leaves the query and the places as they are.
C19_SearchEditClearsPlaces ==
    [][\A code \in KeyCodes :
          (/\ state.focus = "Search"
           /\ state.worker_state # Fetching
           /\ Dispatched(code)) =>
              IF code = Backspace \/ code.code = "Char"
              THEN /\ state'.user_city =
                         (IF code.code = "Char"
                          THEN state.user_city \o <<code.ch>>
                          ELSE SubSeq(state.user_city, 1, Len(state.user_city) - 1))
                   /\ state'.places = [data |-> <<>>, state |-> None]
                   /\ state' = [state EXCEPT !.user_city = state'.user_city,
                                             !.places = state'.places]
                   /\ tasks' = tasks
              ELSE code # Enter =>
                   /\ state'.user_city = state.user_city
                   /\ state'.places = state.places]_vars

\* after a fetch that succeeded (the spinner it ticked is still there),
\* Backspace on the Search line has emptied the query and the places
C19_Witness ==
    /\ pc = "draw"
    /\ last = [code |-> Backspace, focus |-> "Search"]
    /\ state.worker_state = Idle
    /\ state.fetching_spinner.last_tick # None
    /\ state.user_city = <<>>
    /\ state.places = [data |-> <<>>, state |-> None]

\* C20 as claimed: the step of a background task in which dump_svg leaves a
\* file or the opener is called is taken with the Mutex free.
C20_NoIoUnderLock ==
    [][\A i \in 1..Len(tasks) :
          (/\ i <= Len(tasks')
           /\ tasks[i].stage = "idle_set"
           /\ tasks'[i].stage = "called"
           /\ tasks'[i].file # None \/ tasks'[i].opened) => lock = "free"]_vars

----------------------------------------------------------------------------
(* The parameter editor and the focus *)

\* C21: in every reachable state the focus is ParamEdit iff parm_edit_state is
\* Some; and while the focus is ParamEdit no background task is outstanding
\* and WorkerState is not Fetching, so that no completion meets an open edit.
C21_EditStateIffParamEdit ==
    /\ state.focus = "ParamEdit" <=> state.parm_edit_state # None
    /\ state.focus = "ParamEdit" =>
           /\ tasks = <<>>
           /\ ~worker_busy(state)

\* the editor is open, after a search has completed with places, and main is
\* about to draw it
C21_Witness ==
    /\ pc = "draw"
    /\ state.focus = "ParamEdit"
    /\ state.parm_edit_state # None
    /\ state.places.data # <<>>
    /\ last = [code |-> Enter, focus |-> "Options"]

----------------------------------------------------------------------------
(* The error screen and the Error panel *)

\* WorkerState is Error exactly when the focus is on Error
error_shown_iff_focused(st) == st.worker_state.tag = "Error" <=> st.focus = "Error"

\* C22: the state that a draw or a key dispatch of main_loop meets, and the
\* state a dispatch leaves, has WorkerState = Error iff focus = Error; and
\* Enter dispatched with the focus on Error leaves neither.
C22_ErrorIffErrorFocus ==
    [][(Draw \/ \E key \in Keys : KeyEvent(key)) =>
          /\ error_shown_iff_focused(state)
          /\ error_shown_iff_focused(state')
          /\ (KeyEvent(Key(Enter, "NONE")) /\ state.focus = "Error") =>
                 /\ state'.focus # "Error"
                 /\ state'.worker_state.tag # "Error"]_vars

\* a failed fetch has put up the error screen, main has drawn it and waits
\* for a key with the focus on Error
C22_Witness ==
    /\ pc = "wait"
    /\ lock = "free"
    /\ state.focus = "Error"
    /\ state.worker_state.tag = "Error"
    /\ tasks = <<>>

----------------------------------------------------------------------------
(* The places and the query they were found for *)

\* every place listed was found for the query in the buffer
places_of_buffer(st) ==
    \A i \in 1..Len(st.places.data) : st.places.data[i].found_for = st.user_city

\* a step in which the search of task i completes
search_completes(i) == TaskOnSuccess(i) /\ tasks[i].kind = "search"

\* a step in which the continuation of the roads fetch of task i runs
roads_complete(i) == TaskOnSuccess(i) /\ tasks[i].kind = "roads"

\* C23: whenever the places are not empty, each was found for the query the
\* buffer holds; the places change only by being emptied or by the completion
\* of a search, which installs its result, found for the query that search
\* was started with, the buffer holding that query still; the continuation of
\* a roads fetch names its file `<query>.svg` after the query its place was
\* found for; and while a task is outstanding no step changes the buffer or
\* the options.
C23_PlacesBelongToQuery ==
    /\ [](state.places.data # <<>> => places_of_buffer(state))
    /\ [][/\ state'.places.data # state.places.data =>
               \/ state'.places.data = <<>>
               \/ \E i \in 1..Len(tasks) : search_completes(i)
          /\ \A i \in 1..Len(tasks) :
               search_completes(i) =>
                   /\ state'.places = new(tasks[i].result.cities)
                   /\ tasks[i].query = state'.user_city
                   /\ places_of_buffer(state')
          /\ \A i \in 1..Len(tasks) :
               roads_complete(i) =>
                   tasks'[i].path =
                       Some(svg_path(unwrap(tasks[i].place).found_for))
          /\ (tasks # <<>> /\ Running') =>
               /\ state'.user_city = state.user_city
               /\ state'.params = state.params]_vars

\* the continuation of a roads fetch has run for a place found for the query
\* "0", which the buffer still holds, and has named its file "0.svg"
C23_Witness ==
    /\ state.user_city = <<"0">>
    /\ state.places.data # <<>>
    /\ \E i \in 1..Len(tasks) :
          /\ tasks[i].kind = "roads"
          /\ tasks[i].stage = "called"
          /\ unwrap(tasks[i].place).found_for = <<"0">>
          /\ tasks[i].path = Some(<<"0", ".", "s", "v", "g">>)

====
